---- MODULE Spec2Model ----
(***************************************************************************)
(* The HTTP API drivers (Amplitude, Apify, mPOHODA, Odoo, PostHog, Stripe) *)
(* as one state machine: construction of a driver instance, the request    *)
(* dispatcher with its retry loop, the public read call and the batch      *)
(* iterator read_batched.                                                  *)
(*                                                                         *)
(* One call of session.request / session.get / session.post is one HTTP    *)
(* request of the driver: the model counts the calls the driver's own code *)
(* makes and draws the outcome each call hands back to that code.          *)
(***************************************************************************)
EXTENDS Integers, Sequences, FiniteSets, TLC

VARIABLES
    driver,       \* which driver class the instance is
    creds,        \* the credential arguments that are non-empty
    argRetries,   \* the max_retries argument given to the constructor
    max_retries,  \* self.max_retries
    pc,           \* position of the caller / driver
    op,           \* the public call in progress: "none", "read", "read_batched"
    attempt,      \* loop variable of the dispatcher's for loop
    nreq,         \* HTTP requests issued by the current dispatcher call
    nsleep,       \* time.sleep calls made by the current dispatcher call
    delays,       \* the durations of those sleeps, in order
    last,         \* outcome of the latest HTTP request, NoOutcome once consumed
    dres,         \* how the dispatcher call ended: "none", "return" or an exception
    result,       \* how the public call ended: "none", "return" or an exception
    ndata,        \* number of records the server holds (records are 1..ndata)
    shape,        \* the envelope the server wraps a page in
    limit,        \* page size of the request in progress (None: not given)
    batch_size,   \* batch_size of read_batched after validation
    offset,       \* offset of the request in progress
    page,         \* records returned by the latest read
    yielded,      \* batches handed to the consumer of read_batched, in order
    log,          \* page requests and yields of the public call, in order
    truthful,     \* every HTTP request of the public call was answered 200 with its page
    hdr,          \* a Retry-After header set the length of a sleep of the dispatcher call
    object_name,  \* the object_name argument of create
    data,         \* the keys of the data argument of create
    events,       \* len(events) of create_batch
    body          \* the JSON body handed to _parse_response on its own

vars == <<driver, creds, argRetries, max_retries, pc, op, attempt, nreq, nsleep,
          delays, last, dres, result, ndata, shape, limit, batch_size, offset,
          page, yielded, log, truthful, hdr, object_name, data, events, body>>

(***************************************************************************)
(* Bounds of the model                                                     *)
(***************************************************************************)
MaxRetriesArg == 2      \* constructor argument max_retries ranges over 0..MaxRetriesArg
MaxData == 4            \* the server holds 0..MaxData records
MaxBatch == 3           \* small page sizes 0..MaxBatch (besides the driver maxima)
MaxRetryAfter == 1      \* Retry-After header values 0..MaxRetryAfter seconds
MaxEvents == 2          \* create_batch is called with 0..MaxEvents events (besides the maximum)
MaxRecs == 2            \* a body handed to _parse_response holds lists of 0..MaxRecs records

(***************************************************************************)
(* Program constants                                                       *)
(***************************************************************************)
DefaultMaxRetries == 3
ApifyMaxPageSize == 100
MPohodaMaxPageSize == 50
OdooMaxPageSize == 1000
PostHogMaxPageSize == 100
StripeMaxPageSize == 100
OdooDefaultLimit == 80
PostHogDefaultLimit == 50
AmplitudeMaxBatch == 2000
MPohodaDefaultPageSize == 50

Drivers == {"amplitude", "apify", "mpohoda", "odoo", "posthog", "stripe"}

\* An optional argument that the caller leaves out (Python None).
None == 0 - 1

Min(a, b) == IF a < b THEN a ELSE b

RECURSIVE Pow2(_)
Pow2(k) == IF k <= 0 THEN 1 ELSE 2 * Pow2(k - 1)

(***************************************************************************)
(* Exceptions                                                              *)
(***************************************************************************)
DriverErrors == {"DriverError", "AuthenticationError", "ConnectionError",
                 "ObjectNotFoundError", "FieldNotFoundError", "QuerySyntaxError",
                 "RateLimitError", "ValidationError", "TimeoutError"}

\* Exceptions of the HTTP library (requests.exceptions).
LibraryErrors == {"requests.HTTPError", "requests.Timeout", "requests.ConnectionError"}

\* Python built-in exceptions that the code can raise.
BuiltinErrors == {"ValueError", "AttributeError", "UnboundLocalError"}

(***************************************************************************)
(* What one HTTP request hands back to the driver: a response with a       *)
(* status code (and, for 429, a Retry-After header), or an exception of    *)
(* the HTTP library.                                                       *)
(***************************************************************************)
RetryAfterAbsent == 0 - 1     \* no Retry-After header
RetryAfterDate == 0 - 2       \* a Retry-After header that is not an integer (an HTTP date)
RetryAfterValues == {RetryAfterAbsent, RetryAfterDate} \cup (0 .. MaxRetryAfter)

Statuses == {200, 400, 401, 403, 404, 422, 429, 500, 502, 503, 504}

\* Body of a response. Status 200: the requested page as JSON ("page"), or text
\* that is not JSON. Error status: a JSON object with an "error" member, another
\* JSON object, a JSON list, or text that is not JSON.
PageBodies == {"page", "text"}
ErrorBodies == {"error_object", "object", "list", "text"}

\* The statuses for which every body is drawn; the other error statuses come
\* with the usual JSON error object.
BodyStatuses == {400, 500}

Outcomes ==
    [kind : {"status"}, status : {200}, retry_after : {RetryAfterAbsent}, body : PageBodies]
    \cup [kind : {"status"}, status : BodyStatuses,
          retry_after : {RetryAfterAbsent}, body : ErrorBodies]
    \cup [kind : {"status"}, status : Statuses \ ({200, 429} \cup BodyStatuses),
          retry_after : {RetryAfterAbsent}, body : {"error_object"}]
    \cup [kind : {"status"}, status : {429}, retry_after : RetryAfterValues,
          body : {"error_object"}]
    \cup [kind : {"neterr", "timeout"}, status : {0}, retry_after : {RetryAfterAbsent},
          body : {"none"}]

NoOutcome == [kind |-> "none", status |-> 0, retry_after |-> RetryAfterAbsent, body |-> "none"]

IsStatus(o, s) == o.kind = "status" /\ o.status = s
IsServerError(o) == o.kind = "status" /\ o.status >= 500
IsHttpError(o) == o.kind = "status" /\ o.status >= 400    \* raise_for_status raises

(***************************************************************************)
(* Construction                                                            *)
(***************************************************************************)
CredentialNames == {"api_key", "access_token", "client_id", "client_secret"}

\* The credential parameters each constructor has.
CredentialParams(d) ==
    CASE d = "mpohoda" -> CredentialNames
      [] d \in {"amplitude", "apify", "stripe"} -> {"api_key", "access_token"}
      [] OTHER -> {"api_key"}

\* self.max_retries = max_retries or 3
InitMaxRetries(arg) == IF arg = 0 THEN DefaultMaxRetries ELSE arg

\* The check that _validate_connection makes before it issues its request.
MissingCredentials(d, c) ==
    \/ d = "apify" /\ "api_key" \notin c /\ "access_token" \notin c
    \/ d \in {"amplitude", "posthog"} /\ "api_key" \notin c

\* MPohodaDriver._validate_connection: no check of the credentials themselves.
MPohodaValidate(c, o) ==
    CASE IsStatus(o, 401) \/ IsStatus(o, 403) -> {"AuthenticationError"}
      [] o.kind = "neterr" -> {"ConnectionError"}
      [] o.kind = "timeout" -> {"TimeoutError"}
      [] IsHttpError(o) -> {"requests.HTTPError"}   \* raise_for_status, re-raised as is
      [] OTHER -> {"ok"}

\* ApifyDriver._validate_connection
ApifyValidate(c, o) ==
    CASE MissingCredentials("apify", c) -> {"AuthenticationError"}
      [] IsStatus(o, 401) -> {"AuthenticationError"}
      [] IsServerError(o) -> {"ConnectionError"}
      [] o.kind \in {"neterr", "timeout"} -> {"ConnectionError"}
      [] IsHttpError(o) -> {"requests.HTTPError"}   \* raise_for_status, not caught
      [] OTHER -> {"ok"}

\* AmplitudeDriver._validate_connection
AmplitudeValidate(c, o) ==
    CASE MissingCredentials("amplitude", c) -> {"AuthenticationError"}
      [] IsStatus(o, 400) -> {"ok"}
      [] IsStatus(o, 401) \/ IsStatus(o, 403) -> {"AuthenticationError"}
      [] o.kind = "status" /\ o.status >= 200 /\ o.status < 300 -> {"ok"}
      [] OTHER -> {"ConnectionError"}

\* PostHogDriver._validate_connection
PostHogValidate(c, o) ==
    CASE MissingCredentials("posthog", c) -> {"AuthenticationError"}
      [] IsStatus(o, 401) -> {"AuthenticationError"}
      [] o.kind \in {"neterr", "timeout"} -> {"ConnectionError"}
      [] IsHttpError(o) -> {"requests.HTTPError"}   \* raise_for_status, not caught
      [] OTHER -> {"ok"}

\* StripeDriver._validate_connection: no check of the credentials themselves.
StripeValidate(c, o) ==
    CASE IsStatus(o, 401) \/ IsStatus(o, 403) -> {"AuthenticationError"}
      [] IsHttpError(o) -> {"ConnectionError"}
      [] o.kind \in {"neterr", "timeout"} -> {"ConnectionError"}
      [] OTHER -> {"ok"}

\* OdooDriver._validate_connection over _execute_kw and _parse_response: every
\* exception is mapped by its text. _parse_response reads the body as JSON
\* first and inspects only the statuses 401, 429 and 5xx; with any other status
\* it looks for a JSON-RPC "error" member and else returns the body.
OdooValidate(c, o) ==
    CASE o.kind \in {"neterr", "timeout"} -> {"ConnectionError"}
      [] o.body = "text" -> {"ConnectionError"}
      [] IsStatus(o, 401) -> {"AuthenticationError"}
      [] IsStatus(o, 429) \/ IsServerError(o) -> {"ConnectionError"}
      [] o.body = "error_object" -> {"ConnectionError"}
      [] OTHER -> {"ok"}

\* Phase 4 of __init__: the possible ends of _validate_connection.
ValidateConnection(d, c, o) ==
    CASE d = "mpohoda" -> MPohodaValidate(c, o)
      [] d = "apify" -> ApifyValidate(c, o)
      [] d = "amplitude" -> AmplitudeValidate(c, o)
      [] d = "posthog" -> PostHogValidate(c, o)
      [] d = "stripe" -> StripeValidate(c, o)
      [] OTHER -> OdooValidate(c, o)

\* Whether the instance holds a usable credential.
HasCredential(c) ==
    \/ "api_key" \in c
    \/ "access_token" \in c
    \/ ("client_id" \in c /\ "client_secret" \in c)


(***************************************************************************)
(* Request dispatchers. Each operator is one pass of the dispatcher's loop *)
(* body after the HTTP request returned o on attempt number a of an        *)
(* instance whose self.max_retries is m: the dispatcher returns the        *)
(* response, raises, or sleeps and goes to the next attempt.               *)
(***************************************************************************)
Return == [act |-> "return", exc |-> "none", delay |-> 0]
Raise(e) == [act |-> "raise", exc |-> e, delay |-> 0]
SleepFor(d) == [act |-> "sleep", exc |-> "none", delay |-> d]

\* int(response.headers.get("Retry-After", default))
RetryAfterSeconds(o, default) ==
    IF o.retry_after = RetryAfterAbsent THEN default ELSE o.retry_after

\* for attempt in range(self.max_retries + 1)
MPohodaAttempts(m) == m + 1

\* A backoff that grows by one second per attempt.
MPohodaBackoffLinear(a) == a + 1

\* 2 ** attempt
MPohodaBackoff(a) == Pow2(a)

\* MPohodaDriver._api_call with the retry test of the 429 branch off by one
\* (attempt <= self.max_retries).
MPohodaApiCallOffByOne(o, a, m) ==
    CASE o.kind \in {"neterr", "timeout"} ->
            IF a < m THEN SleepFor(MPohodaBackoff(a)) ELSE Raise("ConnectionError")
      [] IsStatus(o, 400) -> Raise("QuerySyntaxError")
      [] IsStatus(o, 404) -> Raise("ObjectNotFoundError")
      [] IsStatus(o, 422) -> Raise("ValidationError")
      [] IsStatus(o, 429) ->
            IF o.retry_after = RetryAfterDate THEN Raise("ValueError")
            ELSE IF a <= m THEN SleepFor(RetryAfterSeconds(o, MPohodaBackoff(a)))
            ELSE Raise("RateLimitError")
      [] IsServerError(o) ->
            IF a < m THEN SleepFor(MPohodaBackoff(a)) ELSE Raise("ConnectionError")
      [] IsHttpError(o) -> Raise("requests.HTTPError")
      [] OTHER -> Return

\* MPohodaDriver._api_call, loop body
MPohodaApiCall(o, a, m) ==
    CASE o.kind \in {"neterr", "timeout"} ->
            IF a < m THEN SleepFor(MPohodaBackoff(a)) ELSE Raise("ConnectionError")
      [] IsStatus(o, 400) -> Raise("QuerySyntaxError")
      [] IsStatus(o, 404) -> Raise("ObjectNotFoundError")
      [] IsStatus(o, 422) -> Raise("ValidationError")
      [] IsStatus(o, 429) ->
            IF o.retry_after = RetryAfterDate THEN Raise("ValueError")
            ELSE IF a < m THEN SleepFor(RetryAfterSeconds(o, MPohodaBackoff(a)))
            ELSE Raise("RateLimitError")
      [] IsServerError(o) ->
            IF a < m THEN SleepFor(MPohodaBackoff(a)) ELSE Raise("ConnectionError")
      [] IsHttpError(o) -> Raise("requests.HTTPError")     \* raise_for_status
      [] OTHER -> Return

\* for attempt in range(self.max_retries)
ApifyAttempts(m) == m

\* ApifyDriver._api_call_with_retry without its retry: a 429 raises at once.
ApifyApiCallNoRetry(o, a, m) ==
    CASE o.kind = "timeout" -> Raise("requests.Timeout")
      [] o.kind = "neterr" -> Raise("requests.ConnectionError")
      [] IsStatus(o, 429) ->
            IF o.retry_after = RetryAfterDate THEN Raise("ValueError")
            ELSE Raise("RateLimitError")
      [] IsStatus(o, 401) -> Raise("AuthenticationError")
      [] IsStatus(o, 404) -> Raise("ObjectNotFoundError")
      [] IsHttpError(o) ->
            IF o.body = "list" THEN Raise("AttributeError") ELSE Raise("QuerySyntaxError")
      [] OTHER -> Return

\* ApifyDriver._api_call_with_retry, loop body
ApifyApiCallWithRetry(o, a, m) ==
    CASE o.kind = "timeout" -> Raise("requests.Timeout")
      [] o.kind = "neterr" -> Raise("requests.ConnectionError")
      [] IsStatus(o, 429) ->
            IF o.retry_after = RetryAfterDate THEN Raise("ValueError")
            ELSE IF a < m - 1 THEN SleepFor(RetryAfterSeconds(o, Pow2(a)))
            ELSE Raise("RateLimitError")
      [] IsStatus(o, 401) -> Raise("AuthenticationError")
      [] IsStatus(o, 404) -> Raise("ObjectNotFoundError")
      [] IsHttpError(o) ->
            \* error_data = response.json(); error_data.get("message", ...)
            IF o.body = "list" THEN Raise("AttributeError") ELSE Raise("QuerySyntaxError")
      [] OTHER -> Return

\* for attempt in range(self.max_retries)
AmplitudeAttempts(m) == m

\* AmplitudeDriver._api_call, loop body (_parse_response included)
AmplitudeApiCall(o, a, m) ==
    CASE o.kind = "timeout" -> Raise("requests.Timeout")
      [] o.kind = "neterr" -> Raise("requests.ConnectionError")
      [] IsStatus(o, 429) ->
            IF o.retry_after = RetryAfterDate THEN Raise("ValueError")
            ELSE IF a < m - 1 THEN SleepFor(RetryAfterSeconds(o, Pow2(a)))
            ELSE Raise("RateLimitError")
      [] IsHttpError(o) -> Raise("requests.HTTPError")
      [] o.body = "text" -> Raise("ConnectionError")
      [] OTHER -> Return

\* PostHogDriver.read: one session.get, no loop
PostHogRequest(o) ==
    CASE o.kind = "timeout" -> Raise("TimeoutError")
      [] o.kind = "neterr" -> Raise("ConnectionError")
      [] IsStatus(o, 401) -> Raise("AuthenticationError")
      [] IsStatus(o, 404) -> Raise("ObjectNotFoundError")
      [] IsStatus(o, 429) ->
            IF o.retry_after = RetryAfterDate THEN Raise("ValueError")
            ELSE Raise("RateLimitError")
      [] IsHttpError(o) -> Raise("QuerySyntaxError")
      [] OTHER -> Return

\* OdooDriver._execute_kw over _parse_response: one session.post, no loop.
\* The except Exception clause turns every error of _parse_response into
\* ConnectionError.
OdooExecuteKw(o) ==
    CASE o.kind = "timeout" -> Raise("TimeoutError")
      [] o.kind = "neterr" -> Raise("ConnectionError")
      [] o.body = "text" -> Raise("ConnectionError")
      [] IsStatus(o, 401) \/ IsStatus(o, 429) \/ IsServerError(o) -> Raise("ConnectionError")
      [] o.body = "error_object" -> Raise("ConnectionError")
      [] OTHER -> Return

\* StripeDriver._handle_api_error
StripeHandleApiError(o) ==
    CASE IsStatus(o, 401) \/ IsStatus(o, 403) -> "AuthenticationError"
      [] IsStatus(o, 404) -> "ObjectNotFoundError"
      [] IsStatus(o, 400) ->
            \* error_obj.get("param") if isinstance(error_data, dict) else None
            IF o.body \in {"object", "text"} THEN "UnboundLocalError" ELSE "ValidationError"
      [] IsStatus(o, 429) -> "RateLimitError"
      [] IsServerError(o) -> "ConnectionError"
      [] OTHER -> "DriverError"

\* StripeDriver.read: one session.get, no loop
StripeRequest(o) ==
    CASE o.kind = "timeout" -> Raise("TimeoutError")
      [] o.kind = "neterr" -> Raise("ConnectionError")
      [] IsHttpError(o) -> Raise(StripeHandleApiError(o))
      [] OTHER -> Return

\* Number of passes the dispatcher's loop has at most.
Attempts(d, m) ==
    CASE d = "mpohoda" -> MPohodaAttempts(m)
      [] d = "apify" -> ApifyAttempts(m)
      [] d = "amplitude" -> AmplitudeAttempts(m)
      [] OTHER -> 1

Dispatch(d, o, a, m) ==
    CASE d = "mpohoda" -> MPohodaApiCall(o, a, m)
      [] d = "apify" -> ApifyApiCallWithRetry(o, a, m)
      [] d = "amplitude" -> AmplitudeApiCall(o, a, m)
      [] d = "posthog" -> PostHogRequest(o)
      [] d = "odoo" -> OdooExecuteKw(o)
      [] OTHER -> StripeRequest(o)

\* What the loop does when range() is exhausted without return or raise.
FallThrough(d) ==
    IF d = "amplitude" THEN "return" ELSE "ConnectionError"

(***************************************************************************)
(* Response bodies and the response normalizers (_parse_response).         *)
(* A JSON value is tagged with its type; a record of the server is the     *)
(* integer that identifies it.                                             *)
(***************************************************************************)
JList(s) == [t |-> "list", v |-> s]
JDict(f) == [t |-> "dict", v |-> f]
JInt(n) == [t |-> "int", v |-> n]
JNull == [t |-> "null", v |-> 0]

\* data.get(key)
Get(d, k) == IF k \in DOMAIN d.v THEN d.v[k] ELSE JNull

\* Python truth value of a JSON value
Truthy(x) ==
    CASE x.t = "list" -> Len(x.v) > 0
      [] x.t = "dict" -> DOMAIN x.v # {}
      [] x.t = "int" -> x.v # 0
      [] OTHER -> FALSE

\* data.get(k1) or data.get(k2) or ... or default
RECURSIVE OrChain(_, _, _)
OrChain(d, keys, default) ==
    IF keys = <<>> THEN default
    ELSE IF Truthy(Get(d, Head(keys))) THEN Get(d, Head(keys))
    ELSE OrChain(d, Tail(keys), default)

\* What stands in a returned list for an element that is no record of the
\* server (a whole JSON object wrapped as [records]).
NotARecord == 0

\* "if isinstance(records, list): return records / else: return [records]"
AsRecordList(x) == IF x.t = "list" THEN x.v ELSE <<NotARecord>>

ApifyKeys == <<"items", "Items", "data", "Data", "results", "Results", "records", "Records">>
MPohodaKeys == <<"items", "Items", "data", "Data", "results", "Results">>
PostHogKeys == <<"results", "data", "items", "Results", "Data", "Items">>
StripeKeys == <<"data", "items", "results", "records">>

\* ApifyDriver._parse_response on a JSON body
ApifyParseResponse(b) ==
    IF b.t = "list" THEN b.v
    ELSE IF b.t = "dict" THEN AsRecordList(OrChain(b, ApifyKeys, JList(<<>>)))
    ELSE <<>>

\* MPohodaDriver._parse_response on a JSON body
MPohodaParseResponse(b) ==
    IF b.t = "list" THEN b.v
    ELSE IF b.t = "dict" THEN AsRecordList(OrChain(b, MPohodaKeys, JList(<<>>)))
    ELSE <<>>

\* PostHogDriver._parse_response on a JSON body
PostHogParseResponse(b) ==
    IF b.t = "list" THEN b.v
    ELSE IF b.t = "dict" THEN AsRecordList(OrChain(b, PostHogKeys, JList(<<>>)))
    ELSE <<>>

\* StripeDriver._parse_response on a JSON body
StripeParseResponse(b) ==
    IF b.t = "list" THEN b.v
    ELSE IF b.t = "dict" THEN AsRecordList(OrChain(b, StripeKeys, JList(<<>>)))
    ELSE <<>>

\* OdooDriver._parse_response on a JSON body without an "error" member
OdooParseResponse(b) ==
    IF b.t # "dict" THEN AsRecordList(b)
    ELSE IF "result" \in DOMAIN b.v THEN AsRecordList(b.v["result"])
    ELSE IF "data" \in DOMAIN b.v THEN AsRecordList(b.v["data"])
    ELSE IF "items" \in DOMAIN b.v THEN AsRecordList(b.v["items"])
    ELSE <<NotARecord>>

ParseResponse(d, b) ==
    CASE d = "apify" -> ApifyParseResponse(b)
      [] d = "mpohoda" -> MPohodaParseResponse(b)
      [] d = "posthog" -> PostHogParseResponse(b)
      [] d = "stripe" -> StripeParseResponse(b)
      [] d = "odoo" -> OdooParseResponse(b)
      [] OTHER -> AsRecordList(b)

(***************************************************************************)
(* The server: a fixed ordered dataset 1..ndata, served by limit / offset. *)
(***************************************************************************)
\* The envelopes in which the API of each driver sends a page.
Shapes(d) ==
    CASE d = "apify" -> {"list", "items", "data_items"}
      [] d = "mpohoda" -> {"list", "paged"}
      [] d = "posthog" -> {"list", "results"}
      [] d = "stripe" -> {"data"}
      [] d = "odoo" -> {"result"}
      [] OTHER -> {"list"}

\* The records at positions off .. off+lim-1 that exist; all from off on when
\* the request carries no limit.
ServerPage(n, lim, off) ==
    LET hi == IF lim = None THEN n ELSE Min(n, off + lim)
    IN  IF off >= hi THEN <<>> ELSE [i \in 1 .. (hi - off) |-> off + i]

\* The cursor a keyset-paginated server sends with the page recs: the position
\* of its last record while records remain after it, else none.
NextCursor(recs, n) ==
    IF recs # <<>> /\ recs[Len(recs)] < n THEN JInt(recs[Len(recs)]) ELSE JNull

\* The JSON body that carries the page recs in envelope sh.
Body(sh, recs, n) ==
    CASE sh = "list" -> JList(recs)
      [] sh = "items" -> JDict(("items" :> JList(recs)) @@ ("total" :> JInt(n)))
      [] sh = "results" -> JDict(("results" :> JList(recs)) @@ ("count" :> JInt(n)))
      [] sh = "paged" ->
            JDict(("items" :> JList(recs))
                  @@ ("pagination" :> JDict("pageToken" :> NextCursor(recs, n))))
      [] sh = "data" ->
            JDict(("data" :> JList(recs))
                  @@ ("has_more" :> (IF NextCursor(recs, n) = JNull THEN JInt(0) ELSE JInt(1))))
      [] sh = "result" -> JDict(("result" :> JList(recs)) @@ ("id" :> JInt(1)))
      [] OTHER -> JDict("data" :> JDict(("items" :> JList(recs)) @@ ("total" :> JInt(n))))

\* The body of an error response that is JSON, as the normalizer sees it.
ErrorBody(kind) ==
    IF kind = "list" THEN JList(<<>>) ELSE JDict("message" :> JInt(1))

(***************************************************************************)
(* The public calls: read and read_batched                                 *)
(***************************************************************************)
MaxPageSize(d) ==
    CASE d = "apify" -> ApifyMaxPageSize
      [] d = "mpohoda" -> MPohodaMaxPageSize
      [] d = "odoo" -> OdooMaxPageSize
      [] d = "posthog" -> PostHogMaxPageSize
      [] OTHER -> StripeMaxPageSize

\* The page sizes a caller passes: none, small ones, the driver maximum and
\* one more than it.
LimitArgs(d) == {None} \cup (0 .. MaxBatch) \cup {MaxPageSize(d), MaxPageSize(d) + 1}
BatchArgs(d) == (0 .. MaxBatch) \cup {MaxPageSize(d), MaxPageSize(d) + 1}

\* The validation at the head of read: "ok" or the exception raised.
ReadCheck(d, lim) ==
    CASE d \in {"apify", "stripe"} ->
            IF lim # None /\ lim # 0 /\ (lim > MaxPageSize(d) \/ lim < 1)
            THEN "ValidationError" ELSE "ok"
      [] d = "mpohoda" ->
            IF lim # None /\ (lim > MPohodaMaxPageSize \/ lim < 1)
            THEN "ValidationError" ELSE "ok"
      [] d = "posthog" ->
            IF lim # None /\ lim # 0 /\ lim > PostHogMaxPageSize
            THEN "ValidationError" ELSE "ok"
      [] OTHER -> "ok"

\* The page-size parameter read puts in its request (None: no parameter).
ReadLimitParam(d, lim) ==
    CASE d \in {"apify", "stripe"} -> IF lim = 0 THEN None ELSE lim
      [] d = "mpohoda" -> IF lim = None THEN MPohodaDefaultPageSize ELSE lim
      [] d = "posthog" -> IF lim = None THEN PostHogDefaultLimit ELSE lim
      [] d = "odoo" -> IF lim = None THEN OdooDefaultLimit ELSE lim
      [] OTHER -> None

\* The validation at the head of read_batched: "ok" or the exception raised.
BatchCheck(d, bs) ==
    CASE d \in {"apify", "posthog"} ->
            IF bs > MaxPageSize(d) THEN "ValidationError" ELSE "ok"
      [] d = "odoo" -> IF bs > OdooMaxPageSize THEN "ValueError" ELSE "ok"
      [] OTHER -> "ok"

\* The drivers whose read_batched pages by offset over read.
OffsetDrivers == {"apify", "odoo", "posthog"}

\* The drivers whose read_batched pages by cursor, with its own requests.
CursorDrivers == {"mpohoda", "stripe"}

\* batch_size after the head of read_batched: the cursor drivers cap it.
BatchSize(d, bs) == IF d \in CursorDrivers THEN Min(bs, MaxPageSize(d)) ELSE bs

\* The page-size parameter of the requests of read_batched.
BatchLimitParam(d, bs) ==
    IF d \in CursorDrivers THEN BatchSize(d, bs) ELSE ReadLimitParam(d, bs)

\* StripeDriver.read_batched: one session.get per page, no loop over attempts
StripeBatchedRequest(o) ==
    CASE o.kind \in {"timeout", "neterr"} -> Raise("ConnectionError")
      [] IsHttpError(o) -> Raise(StripeHandleApiError(o))
      [] OTHER -> Return

\* The dispatcher that the public call o_p of driver d runs.
DispatchOf(o_p, d, o, a, m) ==
    IF o_p = "read_batched" /\ d = "stripe" THEN StripeBatchedRequest(o)
    ELSE Dispatch(d, o, a, m)

\* How a pass of the loop of a cursor read_batched goes on once its dispatcher
\* ended with dr on the response o: "break" leaves the loop as at the end of
\* the data.
BatchedResult(d, dr, o) ==
    CASE d = "mpohoda" ->
            IF dr = "RateLimitError" THEN "break"          \* except RateLimitError: break
            ELSE IF dr = "return" /\ o.body = "text" THEN "ValueError"   \* response.json()
            ELSE dr
      [] OTHER ->
            IF dr = "return" /\ o.body = "text" THEN "ConnectionError" ELSE dr

\* How read ends once its dispatcher ended with dr on the response o:
\* the except clauses of read and the failure of _parse_response.
ReadResult(d, dr, o) ==
    CASE d = "mpohoda" ->
            IF dr = "return" THEN IF o.body = "text" THEN "ConnectionError" ELSE "return"
            ELSE IF dr = "requests.Timeout" THEN "TimeoutError" ELSE dr
      [] d = "apify" ->
            IF dr = "return" THEN IF o.body = "text" THEN "ConnectionError" ELSE "return"
            ELSE IF dr = "requests.Timeout" THEN "TimeoutError"
            ELSE IF dr \in LibraryErrors THEN "ConnectionError" ELSE dr
      [] d = "amplitude" ->
            IF dr = "requests.HTTPError"
            THEN IF IsStatus(o, 400) THEN "QuerySyntaxError" ELSE "ConnectionError"
            ELSE dr
      [] d = "odoo" ->
            IF dr \in {"return", "QuerySyntaxError", "ConnectionError", "RateLimitError"}
            THEN dr ELSE "ConnectionError"
      [] OTHER ->
            IF dr = "return" /\ o.body = "text" THEN "ConnectionError" ELSE dr

\* The list read returns when it returns.
ReadPage(d, o, sh, n, lim, off) ==
    IF d = "amplitude" \/ o.kind # "status" THEN <<>>
    ELSE IF o.status = 200 THEN ParseResponse(d, Body(sh, ServerPage(n, lim, off), n))
    ELSE ParseResponse(d, ErrorBody(o.body))

\* Whether the server answered the request with status 200 and the page.
Answered(o) == IsStatus(o, 200) /\ o.body = "page"

\* Entries of log. A request that the dispatcher re-issues after a sleep is
\* the same page request and has one entry.
ReqEvent(lim, off) == [e |-> "req", limit |-> lim, offset |-> off, n |-> 0]
YieldEvent(batch) == [e |-> "yield", limit |-> 0, offset |-> 0, n |-> Len(batch)]

\* State before any call of the instance.
Idle ==
    /\ op = "none" /\ attempt = 0 /\ nreq = 0 /\ nsleep = 0 /\ delays = <<>>
    /\ last = NoOutcome /\ dres = "none" /\ result = "none"
    /\ ndata = 0 /\ shape = "list" /\ limit = None /\ batch_size = 0 /\ offset = 0
    /\ page = <<>> /\ yielded = <<>> /\ log = <<>> /\ truthful = TRUE
    /\ hdr = FALSE /\ object_name = "none" /\ data = {} /\ events = 0 /\ body = JNull

\* A constructor call about to run, for every driver and every argument.
InitNew ==
    /\ driver \in Drivers
    /\ creds \in SUBSET CredentialParams(driver)
    /\ argRetries \in 0 .. MaxRetriesArg
    /\ max_retries = 0
    /\ pc = "new"
    /\ Idle

\* __init__: phases 2 to 4. The instance exists only if validation passes.
Construct ==
    /\ pc = "new"
    /\ \E o \in Outcomes : \E r \in ValidateConnection(driver, creds, o) :
          /\ last' = IF MissingCredentials(driver, creds) THEN NoOutcome ELSE o
          /\ max_retries' = InitMaxRetries(argRetries)
          /\ IF r = "ok"
                THEN pc' = "ready" /\ result' = "return"
                ELSE pc' = "failed" /\ result' = r
    /\ UNCHANGED <<driver, creds, argRetries, op, attempt, nreq, nsleep, delays,
                   dres, ndata, shape, limit, batch_size, offset, page, yielded, log,
                   truthful, hdr, object_name, data, events, body>>

NextInit == Construct

\* The constructor alone.
SpecInit == InitNew /\ [][NextInit]_vars

\* An instance as the constructor leaves it.
Init ==
    /\ driver \in Drivers
    /\ creds = {"api_key"}
    /\ argRetries \in 0 .. MaxRetriesArg
    /\ max_retries = InitMaxRetries(argRetries)
    /\ pc = "ready"
    /\ Idle

\* The dispatcher is entered with the request parameters lim and off.
EnterDispatcher(lim, off) ==
    /\ pc' = "loop"
    /\ limit' = lim
    /\ offset' = off
    /\ attempt' = 0 /\ nreq' = 0 /\ nsleep' = 0 /\ delays' = <<>>
    /\ last' = NoOutcome /\ dres' = "none" /\ hdr' = FALSE

\* read(query, limit=lim) on a server that holds n records
CallRead ==
    /\ pc = "ready"
    /\ op' = "read"
    /\ \E lim \in LimitArgs(driver), n \in 0 .. MaxData, sh \in Shapes(driver) :
          IF ReadCheck(driver, lim) = "ok"
          THEN /\ EnterDispatcher(ReadLimitParam(driver, lim), 0)
               /\ ndata' = n /\ shape' = sh
               /\ UNCHANGED result
          ELSE /\ pc' = "done"
               /\ result' = ReadCheck(driver, lim)
               /\ UNCHANGED <<limit, offset, attempt, nreq, nsleep, delays, last, dres,
                              ndata, shape, hdr>>
    /\ UNCHANGED <<driver, creds, argRetries, max_retries, batch_size, page, yielded, log,
                   truthful, object_name, data, events, body>>

\* read_batched(query, batch_size=bs), up to its first read
CallReadBatched ==
    /\ pc = "ready"
    /\ driver \in OffsetDrivers \cup CursorDrivers
    /\ op' = "read_batched"
    /\ \E bs \in BatchArgs(driver), n \in 0 .. MaxData, sh \in Shapes(driver) :
          IF BatchCheck(driver, bs) = "ok"
          THEN /\ EnterDispatcher(BatchLimitParam(driver, bs), 0)
               /\ batch_size' = BatchSize(driver, bs)
               /\ ndata' = n /\ shape' = sh
               /\ UNCHANGED result
          ELSE /\ pc' = "done"
               /\ result' = BatchCheck(driver, bs)
               /\ UNCHANGED <<limit, offset, attempt, nreq, nsleep, delays, last, dres,
                              ndata, shape, batch_size, hdr>>
    /\ UNCHANGED <<driver, creds, argRetries, max_retries, page, yielded, log, truthful,
                   object_name, data, events, body>>

\* One pass of the dispatcher's loop up to its sleep: the HTTP request and
\* what the code does with its outcome.
Request ==
    /\ pc = "loop"
    /\ IF attempt < Attempts(driver, max_retries)
       THEN \E o \in Outcomes :
              LET r == DispatchOf(op, driver, o, attempt, max_retries) IN
              /\ nreq' = nreq + 1
              /\ log' = IF nreq = 0 THEN Append(log, ReqEvent(limit, offset)) ELSE log
              /\ truthful' = (truthful /\ Answered(o))
              /\ last' = o
              /\ pc' = IF r.act = "sleep" THEN "sleep" ELSE "dispatched"
              /\ dres' = IF r.act = "sleep" THEN "none"
                         ELSE IF r.act = "return" THEN "return" ELSE r.exc
       ELSE /\ pc' = "dispatched"
            /\ dres' = FallThrough(driver)
            /\ UNCHANGED <<nreq, log, last, truthful>>
    /\ UNCHANGED <<driver, creds, argRetries, max_retries, op, attempt, nsleep, delays,
                   result, ndata, shape, limit, batch_size, offset, page, yielded,
                   hdr, object_name, data, events, body>>

\* time.sleep(...) and continue
Sleep ==
    /\ pc = "sleep"
    /\ nsleep' = nsleep + 1
    /\ delays' = Append(delays, Dispatch(driver, last, attempt, max_retries).delay)
    /\ attempt' = attempt + 1
    /\ hdr' = (hdr \/ last.retry_after # RetryAfterAbsent)
    /\ last' = NoOutcome
    /\ pc' = "loop"
    /\ UNCHANGED <<driver, creds, argRetries, max_retries, op, nreq, dres, result, ndata,
                   shape, limit, batch_size, offset, page, yielded, log, truthful,
                   object_name, data, events, body>>

\* read_batched without its test for an empty page.
YieldsBatchAlways(d, pg) == TRUE

\* "if not batch: break" (mPOHODA: "if records: yield records")
YieldsBatch(d, pg) == pg # <<>>

\* Whether read_batched leaves its loop after it yielded the batch pg.
StopsAfter(d, pg, bs) ==
    CASE d \in {"apify", "odoo"} -> Len(pg) < bs
      [] OTHER -> FALSE

\* What read_batched does after the point of its yield for the page pg:
\* "stop" (break), "next" (another pass of the loop) or the exception raised.
AfterBatch(d, sh, n, pg, bs) ==
    CASE d = "stripe" ->
            IF pg # <<>> /\ Truthy(Get(Body(sh, pg, n), "has_more")) THEN "next" ELSE "stop"
      [] d = "mpohoda" ->
            \* pagination = data.get("pagination", {})
            IF sh = "list" THEN "AttributeError"
            ELSE IF Truthy(Get(Get(Body(sh, pg, n), "pagination"), "pageToken"))
            THEN "next" ELSE "stop"
      [] OTHER -> IF pg = <<>> \/ StopsAfter(d, pg, bs) THEN "stop" ELSE "next"

\* How the iteration ends when it does not go on after the page pg.
EndOfBatches(d, sh, n, pg, bs) ==
    IF AfterBatch(d, sh, n, pg, bs) \in {"stop", "next"} THEN "return"
    ELSE AfterBatch(d, sh, n, pg, bs)

\* The dispatcher has ended: read ends, and read_batched goes on from the
\* list read returned up to its yield.
Finish ==
    /\ pc = "dispatched"
    /\ last' = NoOutcome
    /\ LET rr == IF op = "read_batched" /\ driver \in CursorDrivers
                 THEN BatchedResult(driver, dres, last)
                 ELSE ReadResult(driver, dres, last)
           pg == ReadPage(driver, last, shape, ndata, limit, offset)
       IN  IF rr # "return"
           THEN /\ pc' = "done" /\ result' = (IF rr = "break" THEN "return" ELSE rr)
                /\ UNCHANGED <<page, yielded, log>>
           ELSE IF op = "read"
           THEN /\ pc' = "done" /\ result' = "return" /\ page' = pg
                /\ UNCHANGED <<yielded, log>>
           ELSE IF ~YieldsBatch(driver, pg)
           THEN /\ pc' = "done" /\ page' = pg
                /\ result' = EndOfBatches(driver, shape, ndata, pg, batch_size)
                /\ UNCHANGED <<yielded, log>>
           ELSE /\ pc' = "yielded" /\ page' = pg
                /\ yielded' = Append(yielded, pg)
                /\ log' = Append(log, YieldEvent(pg))
                /\ UNCHANGED result
    /\ UNCHANGED <<driver, creds, argRetries, max_retries, op, attempt, nreq, nsleep,
                   delays, dres, ndata, shape, limit, batch_size, offset, truthful,
                   hdr, object_name, data, events, body>>

\* The next offset advanced by the batch size in every driver, also where the
\* batch was shorter.
NextOffsetSkipping(d, off, pg, bs) == off + bs + 1

\* The offset of the read that follows the batch pg.
NextOffset(d, off, pg, bs) ==
    IF d = "apify" THEN off + Len(pg)
    ELSE IF d \in CursorDrivers THEN pg[Len(pg)]     \* records[-1]["id"], pageToken
    ELSE off + bs

\* The consumer asks for the next batch: read_batched runs from its yield to
\* its end or to its next read.
Resume ==
    /\ pc = "yielded"
    /\ IF AfterBatch(driver, shape, ndata, page, batch_size) # "next"
       THEN /\ pc' = "done"
            /\ result' = EndOfBatches(driver, shape, ndata, page, batch_size)
            /\ UNCHANGED <<limit, offset, attempt, nreq, nsleep, delays, last, dres, hdr>>
       ELSE /\ Len(yielded) <= MaxData     \* the consumer reads on for MaxData + 1 batches
            /\ EnterDispatcher(limit, NextOffset(driver, offset, page, batch_size))
            /\ UNCHANGED result
    /\ UNCHANGED <<driver, creds, argRetries, max_retries, op, ndata, shape, batch_size,
                   page, yielded, log, truthful, object_name, data, events, body>>

\* The keys of an event that create looks for.
EventKeys == {"user_id", "device_id", "event_type"}

\* AmplitudeDriver.create without its test for event_type.
CreateCheckNoEventType(on, d) ==
    IF on # "events" THEN "ObjectNotFoundError"
    ELSE IF "user_id" \notin d /\ "device_id" \notin d THEN "ValidationError"
    ELSE "ok"

\* AmplitudeDriver.create, the validation at its head: "ok" or the exception
CreateCheck(on, d) ==
    IF on # "events" THEN "ObjectNotFoundError"
    ELSE IF "user_id" \notin d /\ "device_id" \notin d THEN "ValidationError"
    ELSE IF "event_type" \notin d THEN "ValidationError"
    ELSE "ok"

\* AmplitudeDriver.create_batch, the validation at its head, on len(events)
CreateBatchCheck(n) ==
    IF n > AmplitudeMaxBatch THEN "ValidationError"
    ELSE IF n = 0 THEN "ValidationError"
    ELSE "ok"

\* The batch lengths a caller passes.
BatchLens == (0 .. MaxEvents) \cup {AmplitudeMaxBatch, AmplitudeMaxBatch + 1}

\* AmplitudeDriver._handle_api_error
AmplitudeHandleApiError(o) ==
    CASE o.body = "list" -> "AttributeError"       \* error_data.get on a JSON list
      [] IsStatus(o, 401) \/ IsStatus(o, 403) -> "AuthenticationError"
      [] IsStatus(o, 404) -> "ObjectNotFoundError"
      [] IsStatus(o, 429) -> "RateLimitError"
      [] IsServerError(o) -> "ConnectionError"
      [] OTHER -> "DriverError"

\* AmplitudeDriver.create_batch from its session.post on: the ways it can end
\* when the request had the outcome o. A 200 body carries a "code" member,
\* which decides between the return and two errors.
CreateBatchEnds(o) ==
    CASE o.kind = "timeout" -> {"TimeoutError"}
      [] o.kind = "neterr" -> {"requests.ConnectionError"}
      [] IsHttpError(o) -> {AmplitudeHandleApiError(o)}
      [] o.body = "text" -> {"ValueError"}          \* response.json()
      [] OTHER -> {"return", "RateLimitError", "ValidationError"}

\* create(object_name, data) up to its request
CallCreate ==
    /\ pc = "ready" /\ driver = "amplitude"
    /\ op' = "create"
    /\ \E on \in {"events", "users"}, d \in SUBSET EventKeys :
          /\ object_name' = on /\ data' = d
          /\ IF CreateCheck(on, d) = "ok"
             THEN pc' = "post" /\ events' = 1 /\ UNCHANGED result
             ELSE pc' = "done" /\ result' = CreateCheck(on, d) /\ UNCHANGED events
    /\ UNCHANGED <<driver, creds, argRetries, max_retries, attempt, nreq, nsleep, delays,
                   last, dres, ndata, shape, limit, batch_size, offset, page, yielded,
                   log, truthful, hdr, body>>

\* create_batch(events) up to its request
CallCreateBatch ==
    /\ pc = "ready" /\ driver = "amplitude"
    /\ op' = "create_batch"
    /\ \E n \in BatchLens :
          /\ events' = n
          /\ IF CreateBatchCheck(n) = "ok"
             THEN pc' = "post" /\ UNCHANGED result
             ELSE pc' = "done" /\ result' = CreateBatchCheck(n)
    /\ UNCHANGED <<driver, creds, argRetries, max_retries, attempt, nreq, nsleep, delays,
                   last, dres, ndata, shape, limit, batch_size, offset, page, yielded,
                   log, truthful, hdr, object_name, data, body>>

\* self.session.post(url, json=payload, ...) of create_batch and what follows
Post ==
    /\ pc = "post"
    /\ \E o \in Outcomes : \E r \in CreateBatchEnds(o) :
          /\ nreq' = nreq + 1
          /\ last' = o
          /\ result' = r
          /\ pc' = "done"
    /\ UNCHANGED <<driver, creds, argRetries, max_retries, op, attempt, nsleep, delays,
                   dres, ndata, shape, limit, batch_size, offset, page, yielded, log,
                   truthful, hdr, object_name, data, events, body>>

Next ==
    \/ CallRead \/ CallReadBatched \/ Request \/ Sleep \/ Finish \/ Resume
    \/ CallCreate \/ CallCreateBatch \/ Post

\* Calls on a constructed instance.
Spec == Init /\ [][Next]_vars

\* The records of a server that holds n of them, in order.
Dataset(n) == [i \in 1 .. n |-> i]

(***************************************************************************)
(* The response normalizers and the Stripe error mapper on their own: each *)
(* is applied once to an input drawn from a bounded set.                   *)
(***************************************************************************)
\* Record lists [r1 .. rk] that a body carries.
RecordLists == {Dataset(k) : k \in 0 .. MaxRecs}

\* {"items": [r1 .. rk], "total": k}
Metadata(recs) == JDict(("items" :> JList(recs)) @@ ("total" :> JInt(Len(recs))))

\* Envelope keys that a body may hold, and the values under them.
EnvelopeKeys == {"items", "data", "results"}
EnvelopeValues ==
    {JList(recs) : recs \in RecordLists} \cup {Metadata(recs) : recs \in RecordLists}
    \cup {JNull}

\* Members of a resource object: {"id": ..., "name": ...}
ResourceMembers == ("id" :> JInt(1)) @@ ("name" :> JInt(2))

\* JSON bodies: a list, or an object with any envelope keys, with or without
\* the members of a resource.
JsonBodies ==
    {JList(recs) : recs \in RecordLists}
    \cup UNION {{JDict(f), JDict(f @@ ResourceMembers)} :
                    f \in UNION {[S -> EnvelopeValues] : S \in SUBSET EnvelopeKeys}}

\* The drivers whose _parse_response takes the first truthy envelope key.
ParseDrivers == {"apify", "mpohoda", "posthog", "stripe"}

\* Failed responses handed to StripeDriver._handle_api_error.
ErrorResponses ==
    [kind : {"status"}, status : Statuses \ {200}, retry_after : {RetryAfterAbsent},
     body : ErrorBodies]

InitPure ==
    /\ creds = {"api_key"} /\ argRetries = 0 /\ max_retries = DefaultMaxRetries
    /\ op = "none" /\ attempt = 0 /\ nreq = 0 /\ nsleep = 0 /\ delays = <<>>
    /\ dres = "none" /\ result = "none"
    /\ ndata = 0 /\ shape = "list" /\ limit = None /\ batch_size = 0 /\ offset = 0
    /\ page = <<>> /\ yielded = <<>> /\ log = <<>> /\ truthful = TRUE
    /\ hdr = FALSE /\ object_name = "none" /\ data = {} /\ events = 0
    /\ \/ /\ pc = "parse" /\ driver \in ParseDrivers
          /\ body \in JsonBodies /\ last = NoOutcome
       \/ /\ pc = "error" /\ driver = "stripe"
          /\ body = JNull /\ last \in ErrorResponses

\* records = self._parse_response(response)
Parse ==
    /\ pc = "parse"
    /\ page' = ParseResponse(driver, body)
    /\ result' = "return"
    /\ pc' = "parsed"
    /\ UNCHANGED <<driver, creds, argRetries, max_retries, op, attempt, nreq, nsleep,
                   delays, last, dres, ndata, shape, limit, batch_size, offset, yielded,
                   log, truthful, hdr, object_name, data, events, body>>

\* self._handle_api_error(e.response)
HandleApiError ==
    /\ pc = "error"
    /\ result' = StripeHandleApiError(last)
    /\ pc' = "raised"
    /\ UNCHANGED <<driver, creds, argRetries, max_retries, op, attempt, nreq, nsleep,
                   delays, last, dres, ndata, shape, limit, batch_size, offset, page,
                   yielded, log, truthful, hdr, object_name, data, events, body>>

NextPure == Parse \/ HandleApiError

\* One application of a normalizer or of the error mapper.
SpecPure == InitPure /\ [][NextPure]_vars

(***************************************************************************)
(* Properties                                                              *)
(***************************************************************************)
RECURSIVE Concat(_)
Concat(ss) == IF ss = <<>> THEN <<>> ELSE Head(ss) \o Concat(Tail(ss))

\* The dispatchers that loop over attempts.
LoopDrivers == {"mpohoda", "apify", "amplitude"}

\* The statuses the retry policy names.
RetryStatuses == {429, 500, 502, 503, 504}

\* The latest request of the dispatcher was answered with a status of the
\* retry policy on a pass of the loop that is not the last one.
RetryableBeforeLast ==
    /\ driver \in LoopDrivers /\ pc \in {"sleep", "dispatched"}
    /\ last.kind = "status" /\ last.status \in RetryStatuses
    /\ attempt + 1 < Attempts(driver, max_retries)

\* C1: one call of MPohodaDriver._api_call issues at most max_retries + 1 HTTP
\* requests and sleeps at most max_retries times, whatever the outcomes of its
\* attempts; no pass of its loop is left without a decision, and the loop
\* never runs out: the call ends by returning the response or raising.
C1_RetriesStop ==
    driver = "mpohoda" =>
        /\ nreq <= max_retries + 1
        /\ nsleep <= max_retries
        /\ Len(delays) = nsleep
        /\ (pc = "loop" => attempt < MPohodaAttempts(max_retries))
        /\ (pc = "dispatched" => dres # "none")
        /\ (pc = "done" /\ op = "read" => result # "none")

\* C1 witness: a call that used every attempt: max_retries sleeps, then the
\* last request is rate limited too and RateLimitError is raised.
C1_Witness ==
    /\ driver = "mpohoda" /\ pc = "dispatched" /\ dres = "RateLimitError"
    /\ nreq = max_retries + 1 /\ nsleep = max_retries

\* C2 (as claimed): an ApifyDriver call that is answered 429 on every attempt
\* has issued max_retries + 1 requests when it raises RateLimitError.
C2_ApifyAttempts ==
    (driver = "apify" /\ pc = "dispatched" /\ dres = "RateLimitError")
        => nreq = max_retries + 1

\* C3 (as claimed): on a driver constructed with max_retries=0, the first 429
\* makes the dispatcher raise RateLimitError after one request and no sleep.
C3_FailFast ==
    (argRetries = 0 /\ driver \in LoopDrivers /\ nreq >= 1
     /\ (pc = "sleep" \/ pc = "dispatched") /\ IsStatus(last, 429)
     /\ last.retry_after # RetryAfterDate)
        => (pc = "dispatched" /\ dres = "RateLimitError" /\ nreq = 1 /\ nsleep = 0)

C5_ShortPageStops ==
    (op = "read_batched" /\ driver \in OffsetDrivers) =>
        \A i \in 1 .. Len(log) :
            (log[i].e = "yield" /\ log[i].n >= 1 /\ log[i].n < batch_size)
                => i = Len(log)

\* Whether read hands the caller the records of the body: the body is the
\* list of records, bare or under one envelope key.
PlainShape == shape # "data_items"

C7_PageSizeWithinMaximum ==
    driver \in {"apify", "mpohoda", "odoo", "posthog", "stripe"} =>
        \A i \in 1 .. Len(log) :
            log[i].e = "req" => (log[i].limit = None \/ log[i].limit <= MaxPageSize(driver))

\* C8 (as claimed): an instance that the constructor returned holds a
\* non-empty credential.
C8_CredentialsNonEmpty == pc = "ready" => HasCredential(creds)

\* C9 (as claimed): a read that fails raises a DriverError subclass, never an
\* exception of the HTTP library or another exception.
C9_TypedErrors ==
    (op = "read" /\ pc = "done") => result \in ({"return"} \cup DriverErrors)

\* C10 (as claimed): when PostHogDriver.read or the mPOHODA dispatcher raises
\* RateLimitError, the rate-limited request has been re-issued max_retries
\* times, each after a sleep.
C10_RateLimitAfterRetries ==
    (driver \in {"posthog", "mpohoda"} /\ pc = "dispatched" /\ dres = "RateLimitError")
        => (nsleep = max_retries /\ nreq = max_retries + 1)

\* C11 (as claimed): when the dispatcher of MPohodaDriver.read_batched ends
\* with RateLimitError while it fetches a page, the iteration ends with
\* RateLimitError raised to the caller.
C11_BatchedRateLimitRaised ==
    (driver = "mpohoda" /\ op = "read_batched" /\ pc = "done" /\ dres = "RateLimitError")
        => result = "RateLimitError"

\* C12 (as claimed): the typed error that OdooDriver._parse_response raises is
\* the error that _execute_kw hands to its caller: RateLimitError when the
\* server answers 429, AuthenticationError when it answers 401.
C12_OdooTypedErrors ==
    (driver = "odoo" /\ pc = "dispatched") =>
        /\ (IsStatus(last, 429) => dres = "RateLimitError")
        /\ (IsStatus(last, 401) => dres = "AuthenticationError")

\* C13 (as claimed): the constructor of every driver returns an instance or
\* raises AuthenticationError or ConnectionError, whatever the answer to the
\* validation request.
C13_ConstructorErrors ==
    pc = "failed" => result \in {"AuthenticationError", "ConnectionError"}

\* A JSON object that is one resource: it has members and none of them is an
\* envelope key.
SingleObject(b) ==
    b.t = "dict" /\ DOMAIN b.v # {} /\ DOMAIN b.v \cap EnvelopeKeys = {}

\* C14 (as claimed): for a body that is one object without an envelope,
\* StripeDriver._parse_response returns a one-element list (holding that
\* object).
C14_StripeSingleObject ==
    (pc = "parsed" /\ driver = "stripe" /\ SingleObject(body)) => Len(page) = 1

\* Whether b is {"data": {"items": recs, "total": n}}
MetadataWrapped(b, recs) ==
    b.t = "dict" /\ DOMAIN b.v = {"data"} /\ b.v["data"] = Metadata(recs)

\* C15 (as claimed): for the body {"data": {"items": [r1..rn], "total": N}}
\* ApifyDriver._parse_response returns the inner record list [r1..rn].
C15_ApifyMetadataWrapped ==
    (pc = "parsed" /\ driver = "apify") =>
        \A recs \in RecordLists : MetadataWrapped(body, recs) => page = recs

\* C16: every batch that read_batched (Apify, mPOHODA, Odoo, PostHog, Stripe)
\* hands to its caller holds at least one element, whatever pages and errors
\* the server answers with.
C16_NoEmptyBatch ==
    /\ \A i \in 1 .. Len(yielded) : Len(yielded[i]) >= 1
    /\ \A i \in 1 .. Len(log) : log[i].e = "yield" => log[i].n >= 1
    /\ (pc = "yielded" => page # <<>>)

\* C16 witness: an iteration that yielded batches, then received an empty page
\* and ended without yielding it.
C16_Witness ==
    /\ op = "read_batched" /\ pc = "done" /\ result = "return"
    /\ Len(yielded) >= 2 /\ page = <<>>
    /\ log[Len(log)].e = "req"

\* The exception that the status code alone selects.
StripeErrorOfStatus(st) ==
    CASE st \in {401, 403} -> "AuthenticationError"
      [] st = 404 -> "ObjectNotFoundError"
      [] st = 400 -> "ValidationError"
      [] st = 429 -> "RateLimitError"
      [] st >= 500 -> "ConnectionError"
      [] OTHER -> "DriverError"

\* C17 (as claimed): StripeDriver._handle_api_error raises the DriverError
\* subclass that the status code selects, for every shape of the body.
C17_StripeErrorByStatus ==
    pc = "raised" => result = StripeErrorOfStatus(last.status)

\* The value under the first of keys that the object b holds (null counts as
\* not held); an empty list when it holds none.
RECURSIVE FirstPresent(_, _)
FirstPresent(b, keys) ==
    IF keys = <<>> THEN JList(<<>>)
    ELSE IF Get(b, Head(keys)) # JNull THEN Get(b, Head(keys))
    ELSE FirstPresent(b, Tail(keys))

\* C19 (as claimed): for an object body, _parse_response of mPOHODA and PostHog
\* returns the value under the highest-priority key that is present, also when
\* that value is an empty list.
C19_PriorityOrder ==
    (pc = "parsed" /\ driver \in {"mpohoda", "posthog"} /\ body.t = "dict") =>
        page = AsRecordList(FirstPresent(body,
                    IF driver = "mpohoda" THEN MPohodaKeys ELSE PostHogKeys))

\* C18: AmplitudeDriver.create called with an object_name other than "events",
\* with an event that has neither user_id nor device_id, or with an event
\* without event_type, and create_batch called with no event or with more
\* than 2000 events, raise ObjectNotFoundError or ValidationError and issue no
\* HTTP request.
C18_ValidateBeforeIO ==
    /\ (op = "create" /\ (object_name # "events"
                          \/ ("user_id" \notin data /\ "device_id" \notin data)
                          \/ "event_type" \notin data))
          => (pc = "done" /\ nreq = 0 /\ last = NoOutcome
              /\ result \in {"ObjectNotFoundError", "ValidationError"})
    /\ (op = "create_batch" /\ (events = 0 \/ events > 2000))
          => (pc = "done" /\ nreq = 0 /\ last = NoOutcome /\ result = "ValidationError")

\* C18 witness: create refused an event that has a user_id and no event_type,
\* without a request.
C18_Witness ==
    /\ op = "create" /\ pc = "done" /\ result = "ValidationError" /\ nreq = 0
    /\ object_name = "events" /\ data = {"user_id"}

RECURSIVE SumSeq(_)
SumSeq(q) == IF q = <<>> THEN 0 ELSE Head(q) + SumSeq(Tail(q))

RECURSIVE RequestOffsets(_)
RequestOffsets(l) ==
    IF l = <<>> THEN <<>>
    ELSE IF Head(l).e = "req" THEN <<Head(l).offset>> \o RequestOffsets(Tail(l))
    ELSE RequestOffsets(Tail(l))

\* C21 (as claimed): in read_batched of Apify, Odoo and PostHog, with every
\* batch_size that is accepted, each page request carries an offset strictly
\* greater than the offset of the page request before it.
C21_OffsetProgress ==
    (op = "read_batched" /\ driver \in OffsetDrivers) =>
        \A i \in 1 .. Len(RequestOffsets(log)) - 1 :
            RequestOffsets(log)[i] < RequestOffsets(log)[i + 1]

\* A started generator is driven to its end: the caller's for loop resumes it
\* after every batch, every request sent gets its outcome (each session call
\* carries a timeout) and every sleep returns.
SpecLive == Init /\ [][Next]_vars /\ WF_vars(Next)

TerminatingDrivers == {"apify", "odoo", "posthog", "stripe"}

ApifyEnvelopeNeverStops ==
    (/\ op = "read_batched" /\ driver = "apify" /\ shape = "data_items"
     /\ batch_size = 1 /\ truthful)
        => /\ pc # "done"
           /\ pc = "yielded" =>
                 AfterBatch(driver, shape, ndata, page, batch_size) = "next"

====
